---- MODULE Spec2Model ----
(***************************************************************************)
(* Voice interaction state machine and streamed-response pipeline of the   *)
(* two voice components of src/components/ai-voice-interface.tsx:          *)
(* AIVoiceInterface (lines 25-264) and GawinVoiceInterface (lines 280-518),*)
(* the route handler POST /api/chat of src/unnamed/part_001, the ripples   *)
(* of AIVoiceSphere of src/components/ai-voice-sphere.tsx, and the cube    *)
(* presenter IceCube of src/components/gawin-ice-cube.tsx.                 *)
(*                                                                         *)
(* Text is a sequence of tokens.  A token is one character, except that    *)
(* the JSON fragments {"content":" and "} and {} are one token each and a  *)
(* fixed sentence of the program is one token.  A reader chunk is any      *)
(* non-empty run of tokens, so a chunk boundary can fall inside a line.    *)
(*                                                                         *)
(* The browser is the environment.  The recognizer follows the Web Speech  *)
(* API: after start() it fires start, then results, and always ends the    *)
(* session with end; error may be fired at any point of a session and is   *)
(* followed by end.  With continuous = false at most one final result is   *)
(* returned per session.                                                   *)
(***************************************************************************)
EXTENDS Integers, Sequences, FiniteSets, Bags, TLC

VARIABLES
    comp,            \* which component is mounted: "AI" or "Gawin"
    hasRecognition,  \* window.SpeechRecognition || window.webkitSpeechRecognition
    hasSynth,        \* window.speechSynthesis is defined
    mounted,         \* the component is mounted (before its effect cleanups ran)
    state,           \* useState<VoiceState>("idle")
    isListening,     \* useState(false)
    isMuted,         \* useState(false), AIVoiceInterface only
    transcript,      \* useState(""), AIVoiceInterface only
    rec,             \* the recognizer's session
    hvi,             \* the bag of handleVoiceInput invocations in flight
    response,        \* useState(""), AIVoiceInterface only
    synthQueue,      \* speechSynthesis' utterance queue, head being spoken
    audio,           \* GawinVoiceInterface's audio refs and initializeAudio position
    audioLevel,      \* useState(0), as the fraction num / den
    route,           \* the POST handler of /api/chat: its position and outcome
    sphere,          \* AIVoiceSphere: its state prop, its ripples and its timers
    cube             \* IceCube: its state prop, its memoized values and its mesh

vars == <<comp, hasRecognition, hasSynth, mounted, state, isListening, isMuted,
          transcript, rec, hvi, response, synthQueue, audio, audioLevel, route,
          sphere, cube>>

voiceVars == <<state, isListening, isMuted, transcript, rec, hvi, response,
               synthQueue>>

audioVars == <<audio, audioLevel>>

envVars == <<comp, hasRecognition, hasSynth>>

clientVars == <<envVars, mounted, voiceVars, audioVars>>

----------------------------------------------------------------------------
(* Bounds *)

MaxInFlight == 2
MaxQueue == 2
BinCount == 3

----------------------------------------------------------------------------
(* Text *)

NL == "\n"
OPEN == "{\"content\":\""
CLOSE == "\"}"
EMPTYOBJ == "{}"

Letters == {"H", "e", "l", "o"}

NotSureText == <<"I heard you, but I'm not sure how to respond to that.">>
TroubleText == <<"I'm having trouble processing that right now.">>
TryAgainText == <<" Please try again.">>

Components == {"AI", "Gawin"}
Transcripts == {"hi", "yo"}

\* chunk.split("\n"): the pieces between newlines, a trailing newline giving a
\* last empty piece.
RECURSIVE SplitLines(_)
SplitLines(s) ==
    IF \A i \in 1..Len(s) : s[i] # NL
    THEN <<s>>
    ELSE LET i == CHOOSE j \in 1..Len(s) :
                      s[j] = NL /\ \A k \in 1..(j - 1) : s[k] # NL
         IN <<SubSeq(s, 1, i - 1)>> \o SplitLines(SubSeq(s, i + 1, Len(s)))

\* line.startsWith("0:")
StartsWithFrame(line) == Len(line) >= 2 /\ line[1] = "0" /\ line[2] = ":"

\* JSON.parse(text) followed by the read of data.content.  ok = FALSE stands for
\* the SyntaxError of JSON.parse; an object without content has content <<>>.
JSONParse(text) ==
    IF text = <<EMPTYOBJ>>
    THEN [ok |-> TRUE, content |-> <<>>]
    ELSE IF /\ Len(text) >= 2
            /\ text[1] = OPEN
            /\ text[Len(text)] = CLOSE
            /\ \A i \in 2..(Len(text) - 1) : text[i] \in Letters
         THEN [ok |-> TRUE, content |-> SubSeq(text, 2, Len(text) - 1)]
         ELSE [ok |-> FALSE, content |-> <<>>]

\* try { JSON.parse(...) ... } catch (e) { /* Skip invalid JSON */ }: the error
\* of a text that does not parse is caught inside the loop and the line skipped.
TryParse_NoCatch(text) ==
    LET data == JSONParse(text)
    IN [threw |-> ~data.ok, content |-> data.content]

TryParse(text) ==
    LET data == JSONParse(text)
    IN [threw |-> FALSE, content |-> IF data.ok THEN data.content ELSE <<>>]

\* The body of the loop over the lines of one chunk: what one line appends
\* (if (data.content) aiResponse += data.content), and whether an error leaves
\* the loop.
LineResult(line) ==
    IF StartsWithFrame(line)
    THEN TryParse(SubSeq(line, 3, Len(line)))
    ELSE [threw |-> FALSE, content |-> <<>>]

RECURSIVE ConcatLines(_)
ConcatLines(lines) ==
    IF lines = <<>> THEN <<>>
    ELSE LineResult(Head(lines)).content \o ConcatLines(Tail(lines))

\* One decoded chunk: what it appends to aiResponse, or an error thrown to the
\* catch block of handleVoiceInput.
ProcessChunk(chunk) ==
    LET lines == SplitLines(chunk)
    IN [threw |-> \E k \in 1..Len(lines) : LineResult(lines[k]).threw,
        appended |-> ConcatLines(lines)]

\* aiResponse || "I heard you, but I'm not sure how to respond to that."
FinalResponse_NoFallback(aiResponse) == aiResponse

FinalResponse(aiResponse) == IF aiResponse = <<>> THEN NotSureText ELSE aiResponse

\* The fallbackResponse of the catch block.
FallbackResponse(c) ==
    IF c = "AI" THEN TroubleText \o TryAgainText ELSE TroubleText

----------------------------------------------------------------------------
(* The bodies the completion endpoint may stream *)

ShortBody == <<"0", ":", OPEN, "H", CLOSE, NL>>

\* 0:{"content":"Hel"} and 0:{"content":"lo"}
HelloBody == <<"0", ":", OPEN, "H", "e", "l", CLOSE, NL,
               "0", ":", OPEN, "l", "o", CLOSE>>

\* A frame, a 0: line whose rest is not valid JSON, a frame
MalformedBody == <<"0", ":", OPEN, "H", CLOSE, NL,
                   "0", ":", OPEN, "e", NL,
                   "0", ":", OPEN, "l", CLOSE, NL>>

\* No line starts with 0:
NoFrameBody == <<"e", ":", OPEN, "H", CLOSE, NL, EMPTYOBJ, NL>>

\* Frames with an empty content and with no content
EmptyContentBody == <<"0", ":", OPEN, CLOSE, NL, "0", ":", EMPTYOBJ, NL>>

\* Only a malformed frame
OnlyMalformedBody == <<"0", ":", "H", CLOSE, NL>>

\* The bodies served while the whole interaction is explored
Bodies == {<<>>, ShortBody}

\* The bodies served while one stream is explored
StreamBodies == Bodies \cup {HelloBody, MalformedBody, NoFrameBody,
                             EmptyContentBody, OnlyMalformedBody}

\* The chunk sizes while the whole interaction is explored: the body in one
\* chunk, or in two with the boundary inside its line
ChunkSizes == {Len(ShortBody) \div 2, Len(ShortBody)}

MaxBody == CHOOSE n \in {Len(b) : b \in StreamBodies} :
               \A b \in StreamBodies : Len(b) <= n

----------------------------------------------------------------------------
(* Values the handlers installed by the mount effect see *)

\* The effects have the dependency list [], so the recognizer's handlers, and
\* the handleVoiceInput they call, are those of the first render: the `state`
\* and `isMuted` they read are the initial values of useState.
StateInHandler == "idle"
IsMutedInHandler == FALSE

\* setState of a component that was unmounted changes nothing.
SetState(v) == IF mounted THEN v ELSE state
SetIsListening(v) == IF mounted THEN v ELSE isListening

NoSession == [phase |-> "off", final |-> FALSE, stop |-> FALSE]

\* The route handler before a request arrives
NoRequest == [pc |-> "idle",
              body |-> [kind |-> "text", hasMessages |-> FALSE, messages |-> <<>>],
              threw |-> "none",
              response |-> [kind |-> "none", status |-> 0, error |-> ""]]

\* AIVoiceSphere after its mount with the state prop "idle": no ripple, and
\* neither timer set.  A timer is <<>> or <<the ms until it fires>>.
NoRipples == [state |-> "idle", ripples |-> 0, interval |-> <<>>, timeout |-> <<>>]

\* Lengths and angles of the cube are in 1/10000: a scale of 1.1 is 11000 and
\* a rotation speed of 0.01 is 100.
SpeedListening == 100
SpeedProcessing == 200
SpeedSpeaking == 300
SpeedIdle == 50

\* rotationSpeed = useMemo(switch (state) ..., [state])
RotationSpeed(s) ==
    CASE s = "listening" -> SpeedListening
      [] s = "processing" -> SpeedProcessing
      [] s = "speaking" -> SpeedSpeaking
      [] OTHER -> SpeedIdle

\* color = useMemo(switch (state) ..., [state])
Color(s) ==
    CASE s = "listening" -> "#60a5fa"
      [] s = "processing" -> "#f59e0b"
      [] s = "speaking" -> "#10b981"
      [] OTHER -> "#e5e7eb"

\* IceCube after its mount with the state prop "idle", before the first frame:
\* the mesh has the scale 1 and no rotation.
NoFrame == [state |-> "idle", rotationSpeed |-> RotationSpeed("idle"),
            color |-> Color("idle"), frames |-> 0, scale |-> 10000,
            rotation |-> [x |-> 0, y |-> 0, z |-> 0]]

\* note: the diagnostic note of the music heuristic was logged
NoAudio == [pc |-> "none", ctx |-> "none", trackLive |-> FALSE, raf |-> FALSE,
            note |-> FALSE]

\* The invocations in flight with one replaced, or one completed
One(inv) == SetToBag({inv})
InFlight == BagCardinality(hvi)

----------------------------------------------------------------------------
(* Mount: useState initial values and both mount effects *)

Init ==
    /\ comp \in Components
    /\ hasRecognition \in BOOLEAN
    /\ hasSynth \in BOOLEAN
    /\ mounted = TRUE
    /\ state = "idle"
    /\ isListening = FALSE
    /\ isMuted = FALSE
    /\ transcript = ""
    /\ rec = NoSession
    /\ hvi = EmptyBag
    /\ response = <<>>
    /\ synthQueue = <<>>
    /\ audio = IF comp = "Gawin"
               THEN [NoAudio EXCEPT !.pc = "awaitMedia", !.ctx = "running"]
               ELSE NoAudio
    /\ audioLevel = [num |-> 0, den |-> 1]
    /\ route = NoRequest
    /\ sphere = NoRipples
    /\ cube = NoFrame

----------------------------------------------------------------------------
(* The recognizer *)

\* recognitionRef.current.start(): a start() during a session throws
\* InvalidStateError, which no handler catches, and leaves the session as it is.
RecognitionStart(r) ==
    IF r.phase = "off" THEN [phase |-> "starting", final |-> FALSE, stop |-> FALSE]
    ELSE r

\* recognitionRef.current.stop()
RecognitionStop(r) ==
    IF r.phase \in {"starting", "started"} THEN [r EXCEPT !.stop = TRUE] ELSE r

\* The condition under which a click on the cube calls start():
\* recognitionRef.current && !isListening && state === "idle"
CubeClickStarts ==
    /\ mounted /\ comp = "Gawin"
    /\ hasRecognition /\ ~isListening /\ state = "idle"

\* handleCubeClick
HandleCubeClick ==
    /\ CubeClickStarts
    /\ rec' = RecognitionStart(rec)
    /\ UNCHANGED <<envVars, route, sphere, cube, mounted, state, isListening, isMuted, transcript, hvi,
                   response, synthQueue, audioVars>>

\* startListening, the microphone button's onClick while ~isListening
StartListening ==
    /\ mounted /\ comp = "AI"
    /\ state \notin {"processing", "speaking"}
    /\ ~isListening
    /\ hasRecognition
    /\ transcript' = ""
    /\ rec' = RecognitionStart(rec)
    /\ UNCHANGED <<envVars, route, sphere, cube, mounted, state, isListening, isMuted, hvi,
                   response, synthQueue, audioVars>>

\* stopListening, the microphone button's onClick while isListening
StopListening ==
    /\ mounted /\ comp = "AI"
    /\ state \notin {"processing", "speaking"}
    /\ isListening
    /\ hasRecognition
    /\ rec' = RecognitionStop(rec)
    /\ UNCHANGED <<envVars, route, sphere, cube, mounted, state, isListening, isMuted, transcript, hvi,
                   response, synthQueue, audioVars>>

\* recognition.onstart
RecognitionOnStart ==
    /\ rec.phase = "starting"
    /\ rec' = [rec EXCEPT !.phase = "started"]
    /\ state' = SetState("listening")
    /\ isListening' = SetIsListening(TRUE)
    /\ UNCHANGED <<envVars, route, sphere, cube, mounted, isMuted, transcript, hvi, response,
                   synthQueue, audioVars>>

\* The body of the POST: JSON.stringify({ messages: [{ role: "user", content:
\* text }] }), as its list of messages
RequestBody_Displayed(text) == <<[role |-> "user", content |-> transcript]>>

RequestBody(text) == <<[role |-> "user", content |-> text]>>

\* The synchronous start of handleVoiceInput, up to the await of fetch: the
\* request is sent and its response awaited.  `request` is the request in
\* flight, <<>> once it is answered (text is not read after the fetch).
NewInvocation(text) == [phase |-> "fetch", request |-> RequestBody(text),
                        body |-> <<>>, pos |-> 0, aiResponse |-> <<>>]

\* recognition.onresult with a final result: handleVoiceInput(transcript)
RecognitionOnFinalResult(text) ==
    /\ rec.phase = "started" /\ ~rec.final
    /\ InFlight < MaxInFlight
    /\ rec' = [rec EXCEPT !.final = TRUE]
    /\ transcript' = IF comp = "AI" /\ mounted THEN text ELSE transcript
    /\ state' = SetState("processing")
    /\ hvi' = hvi (+) One(NewInvocation(text))
    /\ UNCHANGED <<envVars, route, sphere, cube, mounted, isListening, isMuted, response,
                   synthQueue, audioVars>>

\* recognition.onresult with an interim result (interimResults = true only in
\* AIVoiceInterface)
RecognitionOnInterimResult_NoFinalCheck(text) ==
    /\ comp = "AI"
    /\ rec.phase = "started" /\ ~rec.final /\ ~rec.stop
    /\ InFlight < MaxInFlight
    /\ transcript' = IF mounted THEN text ELSE transcript
    /\ state' = SetState("processing")
    /\ hvi' = hvi (+) One(NewInvocation(text))
    /\ UNCHANGED <<envVars, route, sphere, cube, mounted, isListening, isMuted, rec,
                   response, synthQueue, audioVars>>

RecognitionOnInterimResult(text) ==
    /\ comp = "AI"
    /\ rec.phase = "started" /\ ~rec.final /\ ~rec.stop
    /\ transcript' = IF mounted THEN text ELSE transcript
    /\ UNCHANGED <<envVars, route, sphere, cube, mounted, state, isListening, isMuted, rec, hvi,
                   response, synthQueue, audioVars>>

\* The `if (state === "listening") setState("idle")` of recognition.onend
OnEndState(s) == IF StateInHandler = "listening" THEN "idle" ELSE s

\* recognition.onend
RecognitionOnEnd ==
    /\ \/ rec.phase \in {"started", "error"}
       \/ rec.phase = "starting" /\ rec.stop
    /\ rec' = NoSession
    /\ isListening' = SetIsListening(FALSE)
    /\ state' = SetState(OnEndState(state))
    /\ UNCHANGED <<envVars, route, sphere, cube, mounted, isMuted, transcript, hvi, response,
                   synthQueue, audioVars>>

\* recognition.onerror
RecognitionOnError ==
    /\ rec.phase \in {"starting", "started"}
    /\ rec' = [rec EXCEPT !.phase = "error"]
    /\ isListening' = SetIsListening(FALSE)
    /\ state' = SetState("idle")
    /\ UNCHANGED <<envVars, route, sphere, cube, mounted, isMuted, transcript, hvi, response,
                   synthQueue, audioVars>>

----------------------------------------------------------------------------
(* handleVoiceInput after its first await *)

\* The tail shared by the success path and the catch block: setResponse (in
\* AIVoiceInterface), then speak the text or go back to idle.  `muted` is the
\* isMuted the invocation reads.
SpeakOrIdle_NoSynthCheck(inv, text, muted) ==
    /\ response' = IF comp = "AI" /\ mounted THEN text ELSE response
    /\ Len(synthQueue) < MaxQueue
    /\ state' = SetState("speaking")
    /\ synthQueue' = Append(synthQueue, text)
    /\ hvi' = hvi (-) One(inv)
    /\ UNCHANGED <<envVars, route, sphere, cube, mounted, isListening, isMuted, transcript,
                   rec, audioVars>>

SpeakOrIdle(inv, text, muted) ==
    /\ response' = IF comp = "AI" /\ mounted THEN text ELSE response
    /\ IF ~(comp = "AI" /\ muted) /\ hasSynth
       THEN /\ Len(synthQueue) < MaxQueue
            /\ state' = SetState("speaking")
            /\ synthQueue' = Append(synthQueue, text)
       ELSE /\ state' = SetState("idle")
            /\ UNCHANGED synthQueue
    /\ hvi' = hvi (-) One(inv)
    /\ UNCHANGED <<envVars, route, sphere, cube, mounted, isListening, isMuted, transcript, rec, audioVars>>

\* The catch block
Catch_Retry(inv) ==
    /\ hvi' = (hvi (-) One(inv)) (+) One(NewInvocation("hi"))
    /\ UNCHANGED <<envVars, route, sphere, cube, mounted, state, isListening, isMuted, transcript, rec,
                   response, synthQueue, audioVars>>

Catch(inv) == SpeakOrIdle(inv, FallbackResponse(comp), IsMutedInHandler)

\* The code after the read loop
Success(inv, aiResponse) == SpeakOrIdle(inv, FinalResponse(aiResponse), IsMutedInHandler)

\* fetch resolves with response.ok and a readable body
FetchOk(inv, body) ==
    /\ BagIn(inv, hvi) /\ inv.phase = "fetch"
    /\ hvi' = (hvi (-) One(inv)) (+)
                 One([inv EXCEPT !.phase = "read", !.request = <<>>, !.body = body])
    /\ UNCHANGED <<envVars, route, sphere, cube, mounted, state, isListening, isMuted, transcript, rec,
                   response, synthQueue, audioVars>>

\* fetch resolves with response.ok and response.body null: reader is undefined
FetchOkNoBody(inv) ==
    /\ BagIn(inv, hvi) /\ inv.phase = "fetch"
    /\ Success(inv, <<>>)

\* fetch resolves with a non-success status: throw new Error(...)
FetchNotOk(inv) ==
    /\ BagIn(inv, hvi) /\ inv.phase = "fetch"
    /\ Catch(inv)

\* fetch rejects
FetchReject(inv) ==
    /\ BagIn(inv, hvi) /\ inv.phase = "fetch"
    /\ Catch(inv)

\* reader.read() resolves with the next n tokens of the body
ReadChunk(inv, n) ==
    /\ BagIn(inv, hvi) /\ inv.phase = "read"
    /\ n \in 1..(Len(inv.body) - inv.pos)
    /\ LET out == ProcessChunk(SubSeq(inv.body, inv.pos + 1, inv.pos + n))
       IN IF out.threw
          THEN Catch(inv)
          ELSE /\ hvi' = (hvi (-) One(inv)) (+)
                            One([inv EXCEPT !.pos = @ + n,
                                          !.aiResponse = @ \o out.appended])
               /\ UNCHANGED <<envVars, route, sphere, cube, mounted, state, isListening, isMuted,
                              transcript, rec, response, synthQueue, audioVars>>

\* reader.read() resolves with done
ReadDone(inv) ==
    /\ BagIn(inv, hvi) /\ inv.phase = "read"
    /\ inv.pos = Len(inv.body)
    /\ Success(inv, inv.aiResponse)

\* reader.read() rejects
ReadReject(inv) ==
    /\ BagIn(inv, hvi) /\ inv.phase = "read"
    /\ Catch(inv)

----------------------------------------------------------------------------
(* The synthesizer *)

\* utterance.onend of the utterance being spoken
UtteranceOnEnd ==
    /\ synthQueue # <<>>
    /\ synthQueue' = Tail(synthQueue)
    /\ state' = SetState("idle")
    /\ UNCHANGED <<envVars, route, sphere, cube, mounted, isListening, isMuted, transcript, rec, hvi,
                   response, audioVars>>

\* synthRef.current.cancel()
SynthCancel(q) == IF hasSynth THEN <<>> ELSE q

\* toggleMute
ToggleMute ==
    /\ mounted /\ comp = "AI"
    /\ isMuted' = ~isMuted
    /\ IF hasSynth /\ synthQueue # <<>>
       THEN synthQueue' = SynthCancel(synthQueue) /\ state' = "idle"
       ELSE UNCHANGED <<synthQueue, state>>
    /\ UNCHANGED <<envVars, route, sphere, cube, mounted, isListening, transcript, rec, hvi, response,
                   audioVars>>

----------------------------------------------------------------------------
(* GawinVoiceInterface's audio level sampler *)

ByteMax == 255
Samples == {0, 60, 100, ByteMax}

\* getByteFrequencyData: one unsigned byte per frequency bin
Spectra == [1..BinCount -> Samples]

RECURSIVE SumTo(_, _)
SumTo(dataArray, n) == IF n = 0 THEN 0 ELSE dataArray[n] + SumTo(dataArray, n - 1)

\* (dataArray.reduce(sum) / bufferLength) / 255, as a fraction
Level_NoScale(dataArray) == [num |-> SumTo(dataArray, BinCount), den |-> BinCount]

Level(dataArray) == [num |-> SumTo(dataArray, BinCount), den |-> BinCount * ByteMax]

SetAudioLevel(v) == IF mounted THEN v ELSE audioLevel

\* The bands of the music heuristic: dataArray.slice(0, 10), slice(10, 50) and
\* slice(50, 100) of the 128 bins of the analyser, here scaled to one bin each
\* of BinCount bins.
LowBins == 1
MidBins == 1
HighBins == 1

LowThreshold == 60
MidThreshold == 100
HighThreshold == 80

\* dataArray.slice(from, to).reduce(sum): the bins from+1 .. to, as far as the
\* array goes
SliceSum(dataArray, from, to) ==
    LET end == IF to < BinCount THEN to ELSE BinCount
    IN SumTo(dataArray, end) - SumTo(dataArray, IF from < end THEN from ELSE end)

\* isMusic: the mean of each band, its sum over the width the code divides by,
\* is above the band's threshold
IsMusic(dataArray) ==
    /\ SliceSum(dataArray, LowBins, LowBins + MidBins) > MidThreshold * MidBins
    /\ SliceSum(dataArray, LowBins + MidBins, LowBins + MidBins + HighBins)
           > HighThreshold * HighBins
    /\ SliceSum(dataArray, 0, LowBins) > LowThreshold * LowBins

\* One run of analyze: publish the level, log the note of the music heuristic,
\* schedule the next frame.  analyze is created by the initializeAudio of the
\* mount effect, so the `state` it reads is that of the first render.
Analyze_StopsOnMusic(dataArray) ==
    /\ audioLevel' = SetAudioLevel(Level(dataArray))
    /\ audio' = [audio EXCEPT !.pc = "analysing", !.trackLive = TRUE,
                              !.raf = ~(IsMusic(dataArray) /\ state = "listening")]

Analyze(dataArray) ==
    /\ audioLevel' = SetAudioLevel(Level(dataArray))
    /\ audio' = [audio EXCEPT !.pc = "analysing", !.trackLive = TRUE, !.raf = TRUE,
                              !.note = @ \/ (IsMusic(dataArray)
                                               /\ StateInHandler = "listening")]

\* getUserMedia resolves: streamRef is set, the graph is built on the audio
\* context and startAudioAnalysis runs analyze once.  createMediaStreamSource
\* on a context that was closed meanwhile either throws (the catch block logs)
\* or builds the node, depending on the browser.
GetUserMediaResolve ==
    /\ audio.pc = "awaitMedia"
    /\ \/ \E dataArray \in Spectra : Analyze(dataArray)
       \/ /\ audio.ctx = "closed"
          /\ audio' = [audio EXCEPT !.pc = "failed", !.trackLive = TRUE]
          /\ UNCHANGED audioLevel
    /\ UNCHANGED <<envVars, route, sphere, cube, mounted, voiceVars>>

\* getUserMedia rejects: the catch block logs
GetUserMediaReject ==
    /\ audio.pc = "awaitMedia"
    /\ audio' = [audio EXCEPT !.pc = "failed"]
    /\ UNCHANGED <<envVars, route, sphere, cube, mounted, voiceVars, audioLevel>>

\* The animation frame scheduled by analyze fires
AnimationFrame ==
    /\ audio.raf
    /\ \E dataArray \in Spectra : Analyze(dataArray)
    /\ UNCHANGED <<envVars, route, sphere, cube, mounted, voiceVars>>

\* The cleanup of the audio effect
AudioCleanup(a) ==
    [a EXCEPT !.raf = FALSE,
              !.trackLive = FALSE,
              !.ctx = IF a.ctx = "none" THEN "none" ELSE "closed"]

----------------------------------------------------------------------------
(* Unmount: the cleanups of both mount effects *)

Unmount ==
    /\ mounted
    /\ mounted' = FALSE
    /\ rec' = IF hasRecognition THEN RecognitionStop(rec) ELSE rec
    /\ synthQueue' = SynthCancel(synthQueue)
    /\ audio' = IF comp = "Gawin" THEN AudioCleanup(audio) ELSE audio
    /\ UNCHANGED <<envVars, route, sphere, cube, state, isListening, isMuted, transcript, hvi, response,
                   audioLevel>>

----------------------------------------------------------------------------
(* The route handler POST /api/chat of src/unnamed/part_001 *)

MaxMessages == 2
ErrorStatus == 500
OkStatus == 200

ErrorText == "Failed to process chat request"

Roles == {"user", "assistant"}
Messages == [role : Roles, content : Transcripts]
MessageLists == UNION {[1..n -> Messages] : n \in 0..MaxMessages}

\* The bodies a request may carry: a text that is no JSON, the JSON null, an
\* object without messages, an object with a list of messages
RequestBodies ==
    {[kind |-> k, hasMessages |-> FALSE, messages |-> <<>>] :
        k \in {"text", "null", "object"}}
    \cup {[kind |-> "object", hasMessages |-> TRUE, messages |-> m] :
             m \in MessageLists}

\* Response.json({ error: "Failed to process chat request" }, { status: 500 })
ErrorResponse == [kind |-> "json", status |-> ErrorStatus, error |-> ErrorText]

\* result.toUIMessageStreamResponse()
StreamResponse == [kind |-> "stream", status |-> OkStatus, error |-> ""]

\* The catch block: whatever was thrown inside try, by step `at`, is logged
\* and answered with the error response.
RouteCatch_Rethrow(at) ==
    route' = [route EXCEPT !.pc = "escaped", !.threw = at]

RouteCatch(at) ==
    route' = [route EXCEPT !.pc = "returned", !.threw = at,
                           !.response = ErrorResponse]

\* A request arrives
RoutePost(body) ==
    /\ route.pc \in {"idle", "returned"}
    /\ route' = [NoRequest EXCEPT !.pc = "json", !.body = body]
    /\ UNCHANGED <<clientVars, sphere, cube>>

\* const { messages } = await req.json(): req.json() rejects on a body that is
\* no JSON, and destructuring null throws a TypeError.
RouteReqJson ==
    /\ route.pc = "json"
    /\ IF route.body.kind = "object"
       THEN route' = [route EXCEPT !.pc = "convert"]
       ELSE RouteCatch("json")
    /\ UNCHANGED <<clientVars, sphere, cube>>

\* convertToModelMessages(messages), a function of the ai package: it returns
\* the prompt or throws.
RouteConvert ==
    /\ route.pc = "convert"
    /\ \/ route' = [route EXCEPT !.pc = "streamText"]
       \/ RouteCatch("convert")
    /\ UNCHANGED <<clientVars, sphere, cube>>

\* streamText({...}), a function of the ai package: it returns the result or
\* throws.
RouteStreamText ==
    /\ route.pc = "streamText"
    /\ \/ route' = [route EXCEPT !.pc = "toResponse"]
       \/ RouteCatch("streamText")
    /\ UNCHANGED <<clientVars, sphere, cube>>

\* return result.toUIMessageStreamResponse(): it returns the response or throws.
RouteToResponse ==
    /\ route.pc = "toResponse"
    /\ \/ route' = [route EXCEPT !.pc = "returned", !.response = StreamResponse]
       \/ RouteCatch("toResponse")
    /\ UNCHANGED <<clientVars, sphere, cube>>

RouteNext ==
    \/ \E body \in RequestBodies : RoutePost(body)
    \/ RouteReqJson
    \/ RouteConvert
    \/ RouteStreamText
    \/ RouteToResponse

\* The route handler, one request after the other
RouteSpec == Init /\ [][RouteNext]_vars

----------------------------------------------------------------------------
(* AIVoiceSphere of src/components/ai-voice-sphere.tsx: its ripples *)

MaxRipples == 5
RippleIntervalMs == 800
RippleLifeMs == 1500

VoiceState == {"idle", "listening", "processing", "speaking"}

\* The step of the clock: the greatest common divisor of the two delays
ClockStepMs ==
    CHOOSE d \in 1..RippleIntervalMs :
        /\ RippleIntervalMs % d = 0 /\ RippleLifeMs % d = 0
        /\ \A e \in (d + 1)..RippleIntervalMs :
              ~(RippleIntervalMs % e = 0 /\ RippleLifeMs % e = 0)

\* The effect of [ripples], run after every setRipples (each one stores a new
\* array): its cleanup clears the timeout that is pending, and a timeout of
\* 1500 ms is set if the list is not empty.
RipplesEffect(n) == IF n > 0 THEN <<RippleLifeMs>> ELSE <<>>

\* The parent renders the sphere with another state: the cleanup of the effect
\* of [state] clears the interval, and the effect sets an interval of 800 ms
\* if the state is listening and empties the list if it is not.
SphereRender(s) ==
    /\ s # sphere.state
    /\ sphere' = IF s = "listening"
                 THEN [sphere EXCEPT !.state = s, !.interval = <<RippleIntervalMs>>]
                 ELSE [state |-> s, ripples |-> 0, interval |-> <<>>,
                       timeout |-> RipplesEffect(0)]
    /\ UNCHANGED <<clientVars, route, cube>>

\* The interval's callback: setRipples((prev) => [...prev, Date.now()])
SphereIntervalFires ==
    /\ sphere.interval = <<0>>
    /\ sphere.ripples < MaxRipples
    /\ sphere' = [sphere EXCEPT !.ripples = @ + 1,
                                !.interval = <<RippleIntervalMs>>,
                                !.timeout = RipplesEffect(sphere.ripples + 1)]
    /\ UNCHANGED <<clientVars, route, cube>>

\* The timeout's callback: setRipples((prev) => prev.slice(1))
SphereTimeoutFires ==
    /\ sphere.timeout = <<0>>
    /\ LET n == IF sphere.ripples > 0 THEN sphere.ripples - 1 ELSE 0
       IN sphere' = [sphere EXCEPT !.ripples = n, !.timeout = RipplesEffect(n)]
    /\ UNCHANGED <<clientVars, route, cube>>

\* Time passes.  A timer fires when its delay has passed or later: the
\* browser may run a callback late, so a timer that is due stays due.
Elapse(timer) ==
    IF timer = <<>> \/ timer = <<0>> THEN timer ELSE <<timer[1] - ClockStepMs>>

SphereTick ==
    /\ \/ sphere.interval \notin {<<>>, <<0>>}
       \/ sphere.timeout \notin {<<>>, <<0>>}
    /\ sphere' = [sphere EXCEPT !.interval = Elapse(@), !.timeout = Elapse(@)]
    /\ UNCHANGED <<clientVars, route, cube>>

SphereNext ==
    \/ \E s \in VoiceState : SphereRender(s)
    \/ SphereIntervalFires
    \/ SphereTimeoutFires
    \/ SphereTick

\* The sphere under any sequence of states of its parent
SphereSpec == Init /\ [][SphereNext]_vars

----------------------------------------------------------------------------
(* IceCube of src/components/gawin-ice-cube.tsx: the cube presenter *)

MaxFrames == 3
ScaleListening == 110
ScaleSpeaking == 105
ScaleOther == 100
BreathingAmplitude == 5

\* 1 + Math.sin(state.clock.elapsedTime * 2) * 0.05, in 1/100: the sine at
\* its least, at zero and at its most
Breathing == {100 - BreathingAmplitude, 100, 100 + BreathingAmplitude}

\* state === "listening" ? 1.1 : state === "speaking" ? 1.05 : 1, in 1/100
StateScale(s) ==
    IF s = "listening" THEN ScaleListening
    ELSE IF s = "speaking" THEN ScaleSpeaking
    ELSE ScaleOther

\* The `state` of the frame callback is its parameter, useFrame((state) =>
\* ...), which hides the prop of the same name: it is the root state of the
\* canvas, an object, and equals no string.
StateInFrame == "RootState"

\* The parent renders the cube with another state: both memos are computed
\* again.
CubeRender(s) ==
    /\ s # cube.state
    /\ cube' = [cube EXCEPT !.state = s, !.rotationSpeed = RotationSpeed(s),
                            !.color = Color(s)]
    /\ UNCHANGED <<clientVars, route, sphere>>

\* The frame callback, the breathing factor being b
CubeFrame(b) ==
    /\ cube.frames < MaxFrames
    /\ cube' = [cube EXCEPT
                  !.frames = @ + 1,
                  !.scale = b * StateScale(StateInFrame),
                  !.rotation = [x |-> @.x + cube.rotationSpeed,
                                y |-> @.y + (cube.rotationSpeed * 7) \div 10,
                                z |-> @.z + (cube.rotationSpeed * 3) \div 10]]
    /\ UNCHANGED <<clientVars, route, sphere>>

CubeNext ==
    \/ \E s \in VoiceState : CubeRender(s)
    \/ \E b \in Breathing : CubeFrame(b)

\* The cube under any sequence of states of its parent
CubeSpec == Init /\ [][CubeNext]_vars

----------------------------------------------------------------------------

VoiceNext ==
    \/ HandleCubeClick
    \/ StartListening
    \/ StopListening
    \/ RecognitionOnStart
    \/ \E text \in Transcripts : RecognitionOnFinalResult(text)
    \/ \E text \in Transcripts : RecognitionOnInterimResult(text)
    \/ RecognitionOnEnd
    \/ RecognitionOnError
    \/ \E inv \in BagToSet(hvi) : \E body \in Bodies : FetchOk(inv, body)
    \/ \E inv \in BagToSet(hvi) : FetchOkNoBody(inv)
    \/ \E inv \in BagToSet(hvi) : FetchNotOk(inv)
    \/ \E inv \in BagToSet(hvi) : FetchReject(inv)
    \/ \E inv \in BagToSet(hvi) : \E n \in ChunkSizes : ReadChunk(inv, n)
    \/ \E inv \in BagToSet(hvi) : ReadDone(inv)
    \/ \E inv \in BagToSet(hvi) : ReadReject(inv)
    \/ UtteranceOnEnd
    \/ ToggleMute
    \/ Unmount

AudioNext ==
    \/ GetUserMediaResolve
    \/ GetUserMediaReject
    \/ AnimationFrame
    \/ Unmount

\* The voice interaction, with getUserMedia still pending
Spec == Init /\ [][VoiceNext]_vars

\* The voice interaction under the scheduling the browser guarantees: a started
\* session gets its start and its end event, a pending fetch and a pending read
\* settle, and the utterance being spoken ends.  Nothing obliges the user.
FairSpec ==
    /\ Spec
    /\ WF_vars(RecognitionOnStart)
    /\ WF_vars(RecognitionOnEnd)
    /\ WF_vars(\E inv \in BagToSet(hvi) :
                  \/ \E body \in Bodies : FetchOk(inv, body)
                  \/ FetchOkNoBody(inv) \/ FetchNotOk(inv) \/ FetchReject(inv))
    /\ WF_vars(\E inv \in BagToSet(hvi) :
                  \/ \E n \in ChunkSizes : ReadChunk(inv, n)
                  \/ ReadDone(inv)
                  \/ ReadReject(inv))
    /\ WF_vars(UtteranceOnEnd)

\* The voice interaction with every body delivered in one chunk
TurnNext ==
    \/ HandleCubeClick
    \/ StartListening
    \/ StopListening
    \/ RecognitionOnStart
    \/ \E text \in Transcripts : RecognitionOnFinalResult(text)
    \/ \E text \in Transcripts : RecognitionOnInterimResult(text)
    \/ RecognitionOnEnd
    \/ RecognitionOnError
    \/ \E inv \in BagToSet(hvi) : \E body \in Bodies : FetchOk(inv, body)
    \/ \E inv \in BagToSet(hvi) : FetchOkNoBody(inv)
    \/ \E inv \in BagToSet(hvi) : FetchNotOk(inv)
    \/ \E inv \in BagToSet(hvi) : FetchReject(inv)
    \/ \E inv \in BagToSet(hvi) : ReadChunk(inv, Len(inv.body))
    \/ \E inv \in BagToSet(hvi) : ReadDone(inv)
    \/ \E inv \in BagToSet(hvi) : ReadReject(inv)
    \/ UtteranceOnEnd
    \/ ToggleMute
    \/ Unmount

TurnSpec == Init /\ [][TurnNext]_vars

\* One request: a component whose recognition session ended with a final
\* result, the fetch of its handleVoiceInput pending.
StreamInit ==
    /\ comp \in Components
    /\ hasRecognition = TRUE
    /\ hasSynth \in BOOLEAN
    /\ mounted = TRUE
    /\ state = "processing"
    /\ isListening = FALSE
    /\ isMuted = FALSE
    /\ \E text \in Transcripts :
          /\ transcript = (IF comp = "AI" THEN text ELSE "")
          /\ hvi = One(NewInvocation(text))
    /\ rec = NoSession
    /\ response = <<>>
    /\ synthQueue = <<>>
    /\ audio = IF comp = "Gawin"
               THEN [NoAudio EXCEPT !.pc = "awaitMedia", !.ctx = "running"]
               ELSE NoAudio
    /\ audioLevel = [num |-> 0, den |-> 1]
    /\ route = NoRequest
    /\ sphere = NoRipples
    /\ cube = NoFrame

StreamNext ==
    \/ \E inv \in BagToSet(hvi) : \E body \in StreamBodies : FetchOk(inv, body)
    \/ \E inv \in BagToSet(hvi) : FetchOkNoBody(inv)
    \/ \E inv \in BagToSet(hvi) : FetchNotOk(inv)
    \/ \E inv \in BagToSet(hvi) : FetchReject(inv)
    \/ \E inv \in BagToSet(hvi) : \E n \in 1..MaxBody : ReadChunk(inv, n)
    \/ \E inv \in BagToSet(hvi) : ReadDone(inv)
    \/ \E inv \in BagToSet(hvi) : ReadReject(inv)
    \/ UtteranceOnEnd

StreamSpec == StreamInit /\ [][StreamNext]_vars

\* The audio sampler, with no voice interaction
AudioSpec == Init /\ [][AudioNext]_vars

\* The audio sampler while recognition sessions come and go and their
\* requests fail
SamplerNext ==
    \/ GetUserMediaResolve
    \/ GetUserMediaReject
    \/ AnimationFrame
    \/ HandleCubeClick
    \/ RecognitionOnStart
    \/ \E text \in Transcripts : RecognitionOnFinalResult(text)
    \/ RecognitionOnEnd
    \/ RecognitionOnError
    \/ \E inv \in BagToSet(hvi) : FetchNotOk(inv)
    \/ UtteranceOnEnd

SamplerSpec == Init /\ [][SamplerNext]_vars

----------------------------------------------------------------------------
(* What the claims speak of *)

\* A handleVoiceInput ends on its success path, on its failure path
SucceedsStep(inv) == FetchOkNoBody(inv) \/ ReadDone(inv)
FailsStep(inv) == FetchNotOk(inv) \/ FetchReject(inv) \/ ReadReject(inv)
CompletesStep == \E inv \in BagToSet(hvi) : SucceedsStep(inv) \/ FailsStep(inv)

\* The lines of a body, read off the positions of its newlines
LineStarts(body) == {1} \cup {k + 1 : k \in {j \in 1..Len(body) : body[j] = NL}}
LineAt(body, from) ==
    LET ends == {j \in from..Len(body) : body[j] = NL}
        to == IF ends = {} THEN Len(body)
              ELSE (CHOOSE j \in ends : \A k \in ends : j <= k) - 1
    IN SubSeq(body, from, to)

\* A line 0:{"content":"<letters>"} and the letters it carries
IsContentFrame(line) ==
    /\ Len(line) >= 4
    /\ line[1] = "0" /\ line[2] = ":" /\ line[3] = OPEN /\ line[Len(line)] = CLOSE
    /\ \A k \in 4..(Len(line) - 1) : line[k] \in Letters
FrameText(line) == IF IsContentFrame(line) THEN SubSeq(line, 4, Len(line) - 1) ELSE <<>>

\* The in-order concatenation of the content of the content frames of the
\* lines that start at a position >= from
RECURSIVE ContentFrom(_, _)
ContentFrom(body, from) ==
    IF from > Len(body) THEN <<>>
    ELSE LET line == LineAt(body, from)
         IN FrameText(line) \o ContentFrom(body, from + Len(line) + 1)
ExpectedResponse(body) == ContentFrom(body, 1)

\* A line that starts with 0: and whose rest is not valid JSON
IsMalformedFrame(line) ==
    StartsWithFrame(line) /\ ~JSONParse(SubSeq(line, 3, Len(line))).ok
HasMalformedFrame(body) ==
    \E from \in LineStarts(body) : from <= Len(body) /\ IsMalformedFrame(LineAt(body, from))

\* The tokens pos+1 .. pos+n of a body are whole lines of it
WholeLines(body, pos, n) ==
    /\ pos + 1 \in LineStarts(body)
    /\ pos + n = Len(body) \/ body[pos + n] = NL

----------------------------------------------------------------------------
(* C1: every change of the interaction state is one of the six transitions  *)
(* of the state machine, made by that transition's trigger: idle->listening *)
(* by the recognizer's start event, listening->processing by a final        *)
(* result, listening->idle by the recognizer's end or error event,          *)
(* processing->speaking and processing->idle by the completion of the       *)
(* request with and without a synthesizer, speaking->idle by the end of the *)
(* utterance.                                                               *)
EnumeratedTransition ==
    \/ /\ state = "idle" /\ state' = "listening"
       /\ hasRecognition /\ RecognitionOnStart
    \/ /\ state = "listening" /\ state' = "processing"
       /\ \E text \in Transcripts : RecognitionOnFinalResult(text)
    \/ /\ state = "listening" /\ state' = "idle"
       /\ RecognitionOnEnd \/ RecognitionOnError
    \/ /\ state = "processing" /\ state' = "speaking"
       /\ hasSynth /\ CompletesStep
    \/ /\ state = "processing" /\ state' = "idle"
       /\ ~hasSynth /\ CompletesStep
    \/ /\ state = "speaking" /\ state' = "idle"
       /\ UtteranceOnEnd

C1_OnlyEnumeratedTransitions == [][state' # state => EnumeratedTransition]_vars

(* C2: the recognizer is started only while the state is idle, and there is *)
(* never more than one handleVoiceInput in flight nor more than one         *)
(* utterance handed to the synthesizer and not yet ended.                   *)
C2_OneCycleAtATime ==
    [][ /\ (rec.phase = "off" /\ rec'.phase = "starting") => state = "idle"
        /\ BagCardinality(hvi') <= 1
        /\ Len(synthQueue') <= 1 ]_vars

(* C3: the interaction state eventually becomes idle.  In the form a finite *)
(* run refutes: once no recognizer session, no request and no utterance is  *)
(* pending, only a user action can change the state, so the state of a      *)
(* mounted component is idle by then.                                       *)
C3_QuiescentIsIdle ==
    (mounted /\ rec.phase = "off" /\ hvi = EmptyBag /\ synthQueue = <<>>)
        => state = "idle"

\* The same as a temporal formula, for FairSpec
EventuallyIdle == []<>(state = "idle" \/ ~mounted)

(* C4: when the recognizer's end event fires while the state is listening   *)
(* and the session gave no final result, the state becomes idle and         *)
(* isListening false; when its error event fires while listening, the state *)
(* becomes idle.                                                            *)
C4_ListeningEndsIdle ==
    [][ (mounted /\ state = "listening") =>
          /\ (RecognitionOnEnd /\ ~rec.final) => (state' = "idle" /\ ~isListening')
          /\ RecognitionOnError => state' = "idle" ]_vars

(* C5: when the stream is done, whatever the division of the body into      *)
(* chunks was, the accumulated response is the in-order concatenation of    *)
(* the content of the body's content frames.                                *)
C5_AccumulatesEveryFrame ==
    \A inv \in BagToSet(hvi) :
        (inv.phase = "read" /\ inv.pos = Len(inv.body))
            => inv.aiResponse = ExpectedResponse(inv.body)

(* C6: a completion call that fails produces the text "I'm having trouble   *)
(* processing that right now." in both components, and leaves the state     *)
(* speaking if there is a synthesizer and idle if not.                      *)
C6_FailureFallback ==
    [][ \A inv \in BagToSet(hvi) : (mounted /\ FailsStep(inv)) =>
          /\ comp = "AI" => response' = TroubleText
          /\ hasSynth => synthQueue' = Append(synthQueue, TroubleText)
          /\ state' = IF hasSynth THEN "speaking" ELSE "idle" ]_vars

(* C7: a request that completes on its success path with nothing            *)
(* accumulated produces "I heard you, but I'm not sure how to respond to    *)
(* that." and hands that text to the synthesizer; with something            *)
(* accumulated it produces the accumulated text, never the fallback; and a  *)
(* body without any content frame accumulates nothing.                      *)
C7_EmptyStreamFallback ==
    [][ \A inv \in BagToSet(hvi) :
          /\ SucceedsStep(inv) =>
               LET text == IF inv.aiResponse = <<>> THEN NotSureText
                           ELSE inv.aiResponse
               IN /\ hasSynth => synthQueue' = Append(synthQueue, text)
                  /\ (comp = "AI" /\ mounted) => response' = text
          /\ (inv.phase = "read" /\ ExpectedResponse(inv.body) = <<>>)
               => inv.aiResponse = <<>> ]_vars

C7_Witness ==
    /\ hvi = EmptyBag
    /\ hasSynth /\ synthQueue = <<NotSureText>>
    /\ comp = "AI" => response = NotSureText

(* C8: once GawinVoiceInterface is unmounted no microphone track is live,   *)
(* the audio context is not running and no animation frame of the sampler   *)
(* is scheduled.                                                            *)
C8_TeardownReleasesAudio ==
    ~mounted => (~audio.trackLive /\ audio.ctx # "running" /\ ~audio.raf)

(* C9: once the component is unmounted the synthesizer holds no utterance.  *)
C9_NoSynthesisAfterTeardown == ~mounted => synthQueue = <<>>

(* C10: a chunk of whole lines that holds a 0: line whose rest is not valid *)
(* JSON does not end the request: the invocation stays in flight on its     *)
(* success path, nothing is spoken, and the chunk appends exactly the       *)
(* content of its content frames, those before and those after the          *)
(* malformed line, in order.                                                *)
C10_MalformedFrameSkipped ==
    [][ \A inv \in BagToSet(hvi) : \A n \in 1..MaxBody :
          LET chunk == SubSeq(inv.body, inv.pos + 1, inv.pos + n)
          IN (/\ ReadChunk(inv, n)
              /\ WholeLines(inv.body, inv.pos, n)
              /\ HasMalformedFrame(chunk)) =>
                 /\ hvi' = (hvi (-) One(inv)) (+)
                              One([inv EXCEPT !.pos = @ + n,
                                    !.aiResponse = @ \o ExpectedResponse(chunk)])
                 /\ UNCHANGED <<state, response, synthQueue>> ]_vars

C10_Witness ==
    \E inv \in BagToSet(hvi) :
        /\ inv.body = MalformedBody /\ inv.pos = Len(inv.body)
        /\ inv.aiResponse = <<"H", "l">>

(* C11: nothing is retried.  A request is sent only by a final result, one  *)
(* per result; an utterance is handed to the synthesizer only by the        *)
(* completion of a request, one per request; a failed request leaves one    *)
(* request less in flight and the recognizer as it is; a recognition error  *)
(* sends nothing and starts nothing; and a recognizer that is off is        *)
(* started only by the user's click.                                        *)
C11_NothingRetried ==
    [][ /\ \A inv \in BagToSet(hvi') :
              (inv.phase = "fetch" /\ CopiesIn(inv, hvi') > CopiesIn(inv, hvi)) =>
                 /\ \E text \in Transcripts : RecognitionOnFinalResult(text)
                 /\ BagCardinality(hvi') = BagCardinality(hvi) + 1
        /\ Len(synthQueue') > Len(synthQueue) =>
              /\ Len(synthQueue') = Len(synthQueue) + 1
              /\ BagCardinality(hvi') = BagCardinality(hvi) - 1
        /\ \A inv \in BagToSet(hvi) :
              \/ /\ BagCardinality(hvi') = BagCardinality(hvi) - 1
                 /\ \A other \in BagToSet(hvi') :
                       CopiesIn(other, hvi') <= CopiesIn(other, hvi)
                 /\ rec' = rec
              \/ ~FailsStep(inv)
        /\ (hvi' = hvi /\ rec'.phase = "error") \/ ~RecognitionOnError
        /\ (rec.phase = "off" /\ rec'.phase # "off") =>
              (HandleCubeClick \/ StartListening) ]_vars

\* A request failed and its fallback is being spoken: nothing is in flight and
\* the recognizer is off
C11_Witness ==
    /\ mounted /\ hvi = EmptyBag /\ rec.phase = "off"
    /\ synthQueue = <<FallbackResponse(comp)>>

(* C12: the level published by every run of analyze is the mean of the bins *)
(* over 255 and lies in [0, 1].                                             *)
C12_AudioLevelInUnitInterval ==
    /\ 0 <= audioLevel.num /\ audioLevel.num <= audioLevel.den /\ audioLevel.den > 0
    /\ \E dataArray \in Spectra \cup {[k \in 1..BinCount |-> 0]} :
          audioLevel.num * (BinCount * ByteMax)
              = SumTo(dataArray, BinCount) * audioLevel.den

\* Every bin at 255: the level is 1
C12_Witness == mounted /\ audio.raf /\ audioLevel.num = BinCount * ByteMax

(* C17: one run of analyze, whatever the spectrum, changes nothing but the  *)
(* audio level and the animation frame handle (and what it logs), and       *)
(* leaves the next frame scheduled: the interaction state, isListening, the *)
(* recognizer, the synthesizer and the requests in flight stay as they are. *)
C17_AnalyzeIndependent ==
    [][ /\ \/ /\ audio'.raf
              /\ [audio' EXCEPT !.note = audio.note] = [audio EXCEPT !.raf = TRUE]
              /\ UNCHANGED <<envVars, mounted, voiceVars>>
           \/ ~AnimationFrame
        /\ \/ /\ audio'.raf
              /\ UNCHANGED <<envVars, mounted, voiceVars>>
           \/ ~(GetUserMediaResolve /\ audio'.pc = "analysing") ]_vars

\* analyze ran on a spectrum of the music heuristic (every bin at 255) and the
\* state is listening with a request in flight
C17_Witness ==
    /\ mounted /\ state = "listening" /\ hvi # EmptyBag
    /\ audio.raf /\ audioLevel.num = BinCount * ByteMax

(* C13: the request sent for a final result carries exactly one message,    *)
(* with role "user" and the transcript of that result as its content; every *)
(* request in flight is such a list of one message, whatever was said and   *)
(* answered in earlier turns.                                               *)
C13_SingleUserMessage ==
    [][ /\ \A text \in Transcripts : RecognitionOnFinalResult(text) =>
              /\ \E inv \in BagToSet(hvi') :
                    /\ hvi' = hvi (+) One(inv)
                    /\ inv.phase = "fetch"
                    /\ inv.request = <<[role |-> "user", content |-> text]>>
              /\ (comp = "AI" /\ mounted) => transcript' = text
        /\ \A inv \in BagToSet(hvi') : inv.phase = "fetch" =>
              /\ Len(inv.request) = 1
              /\ inv.request[1].role = "user"
              /\ inv.request[1].content \in Transcripts ]_vars

\* A later turn of AIVoiceInterface: the response of an earlier turn is on
\* display while the request for "yo" is in flight
C13_Witness ==
    /\ comp = "AI" /\ mounted /\ response # <<>> /\ transcript = "yo"
    /\ \E inv \in BagToSet(hvi) :
          inv.phase = "fetch" /\ inv.request = <<[role |-> "user", content |-> "yo"]>>

(* C14: whenever the handling of a POST /api/chat throws, be it at the      *)
(* parse of the body, the conversion of the messages or the start of the    *)
(* completion, the route returns the JSON body {error: "Failed to process   *)
(* chat request"} with status 500 and no exception leaves the handler;      *)
(* otherwise it returns the streamed response.                              *)
C14_RouteAnswersErrorsWith500 ==
    /\ route.pc # "escaped"
    /\ route.pc = "returned" =>
          /\ route.threw # "none" =>
                route.response = [kind |-> "json", status |-> 500,
                                  error |-> "Failed to process chat request"]
          /\ route.threw = "none" => route.response.kind = "stream"
          /\ route.body.kind # "object" => route.threw = "json"
    /\ route.pc \notin {"idle", "json", "returned"} => route.body.kind = "object"

\* A body that is no JSON was answered with the error response
C14_Witness ==
    /\ route.pc = "returned" /\ route.body.kind = "text"
    /\ route.response.status = 500

(* C15: the state is listening only with a recognizer and speaking only     *)
(* with a synthesizer.  Without a recognizer no session is ever started, no *)
(* request sent, and the state stays idle; without a synthesizer nothing is *)
(* handed to it and every request that completes, on its success or its     *)
(* failure path, leaves the state idle.                                     *)
C15_CapabilityInvariant ==
    /\ [](/\ state = "listening" => hasRecognition
          /\ state = "speaking" => hasSynth
          /\ ~hasRecognition => (state = "idle" /\ rec.phase = "off" /\ hvi = EmptyBag)
          /\ ~hasSynth => synthQueue = <<>>)
    /\ [][ (~hasSynth /\ mounted /\ CompletesStep) => state' = "idle" ]_vars

\* Without a synthesizer, the request of the session still going has completed
\* and the state is idle
C15_Witness ==
    /\ ~hasSynth /\ mounted
    /\ rec.phase = "started" /\ rec.final /\ hvi = EmptyBag
    /\ state = "idle"

(* C16: only a final result moves the state to processing and sends a       *)
(* request, and the text sent is the transcript of that result.  An interim *)
(* result, which only AIVoiceInterface receives, changes the displayed      *)
(* transcript and nothing else.                                             *)
C16_OnlyFinalResultsTrigger ==
    [][ /\ (state' = "processing" /\ state # "processing") =>
              \E text \in Transcripts : RecognitionOnFinalResult(text)
        /\ BagCardinality(hvi') > BagCardinality(hvi) =>
              \E text \in Transcripts :
                 /\ RecognitionOnFinalResult(text)
                 /\ rec'.final /\ ~rec.final
                 /\ hvi' = hvi (+) One([phase |-> "fetch",
                                        request |-> <<[role |-> "user",
                                                       content |-> text]>>,
                                        body |-> <<>>, pos |-> 0,
                                        aiResponse |-> <<>>])
        /\ \A text \in Transcripts : RecognitionOnInterimResult(text) =>
              /\ comp = "AI"
              /\ UNCHANGED <<envVars, mounted, state, isListening, isMuted, rec,
                             hvi, response, synthQueue, audioVars>> ]_vars

\* AIVoiceInterface has displayed an interim result of the session going on:
\* the state is still listening and no request is in flight
C16_Witness ==
    /\ comp = "AI" /\ mounted
    /\ rec.phase = "started" /\ ~rec.final
    /\ transcript # "" /\ state = "listening" /\ hvi = EmptyBag

(* C18: in AIVoiceInterface a response that becomes ready while mute is on  *)
(* is not handed to the synthesizer and the state does not become speaking; *)
(* one that becomes ready while mute is off is spoken.                      *)
C18_MuteDecidesSpeaking ==
    [][ (comp = "AI" /\ mounted /\ CompletesStep) =>
          IF isMuted
          THEN synthQueue' = synthQueue /\ state' = "idle"
          ELSE hasSynth => (Len(synthQueue') = Len(synthQueue) + 1
                            /\ state' = "speaking") ]_vars

(* C19: in GawinVoiceInterface a click on the cube calls start() only       *)
(* while no session of the recognizer is pending or going on: between the   *)
(* start() of a click and the recognizer's onstart, no further click        *)
(* reaches start().                                                         *)
C19_NoDuplicateStart == CubeClickStarts => rec.phase = "off"

(* C20: the list of ripples of AIVoiceSphere never holds more than 2        *)
(* entries, however long the state stays listening, and it is empty         *)
(* whenever the state is not listening.                                     *)
C20_RipplesBounded ==
    /\ sphere.ripples <= 2
    /\ sphere.state # "listening" => sphere.ripples = 0

(* C21: in every frame the scale of the mesh is the breathing factor times  *)
(* 1.1 when the state prop is listening, 1.05 when it is speaking and 1     *)
(* otherwise, and the rotation advances by 0.01 / 0.02 / 0.03 / 0.005 for   *)
(* listening / processing / speaking / idle; the color is the one of the    *)
(* state prop.                                                              *)
C21_CubeFollowsState ==
    [][ /\ \A b \in Breathing : CubeFrame(b) =>
              /\ cube'.scale = b * (CASE cube.state = "listening" -> 110
                                      [] cube.state = "speaking" -> 105
                                      [] OTHER -> 100)
              /\ cube'.rotation.x - cube.rotation.x =
                    (CASE cube.state = "listening" -> 100
                       [] cube.state = "processing" -> 200
                       [] cube.state = "speaking" -> 300
                       [] OTHER -> 50)
        /\ cube'.color = (CASE cube'.state = "listening" -> "#60a5fa"
                            [] cube'.state = "processing" -> "#f59e0b"
                            [] cube'.state = "speaking" -> "#10b981"
                            [] OTHER -> "#e5e7eb") ]_vars

\* The part of it that leaves the scale aside
CubeSpeedAndColorFollowState ==
    [][ /\ \A b \in Breathing : CubeFrame(b) =>
              cube'.rotation.x - cube.rotation.x = RotationSpeed(cube.state)
        /\ cube'.color = Color(cube'.state) ]_vars

====
